---- MODULE Spec2Model ----
(***************************************************************************)
(* Model of back_end/Tracker/vanilla_tracker.py: the ROI tracker wrapper   *)
(* (tracker.__init__, tracker.update), box_to_slice, convert_to_dict,      *)
(* convert_to_JSON_file and the driver loop of __main__ that frames the    *)
(* records of Output.json between '[' and ']'.                             *)
(*                                                                         *)
(* Numbers.  Rectangle coordinates and intensities are floats in the code; *)
(* the model carries them as integers counting HALF units (3 stands for    *)
(* 1.5), so int() truncation and float formatting are real conversions.    *)
(* Python ints (the sentinel -1, frame_number) are kept apart from floats. *)
(*                                                                         *)
(* File.  Output.json is a sequence of lexical tokens, each a string.  The *)
(* tokens the driver itself writes ('[', ',', the newline bytes, ']') and  *)
(* the closing '}' of a record are one byte each, so the 3-byte cut of the *)
(* close step is exact (see TailIsSingleBytes).                            *)
(***************************************************************************)
EXTENDS Integers, Sequences, FiniteSets, TLC

VARIABLES
    pc,             \* position of __main__: "uninit","init","loop","closed","aborted"
                    \* (or "call","returned" for a bare convert_to_dict call)
    error,          \* the uncaught exception that ended the program, or "none"
    linesep,        \* bytes a text-mode write produces for "\n" on this platform
    rois0,          \* seed rectangles handed to the constructor
    spread_func,    \* "None" or "std"
    objects,        \* cv2.MultiTracker's rectangles, one per added tracker
    ii,             \* loop index of `for ii in range(frames_to_process)`
    frame_counter,  \* frame_counter of __main__
    succ,           \* flag returned by the last self.tracker.update(vis)
    ret,            \* the tuple returned by the last tracker.update call
    JSONDictionary, \* the last record built (insertion-ordered key/value pairs)
    file,           \* content of Output.json
    stdout          \* what was printed

vars == <<pc, error, linesep, rois0, spread_func, objects, ii, frame_counter,
          succ, ret, JSONDictionary, file, stdout>>

(***************************************************************************)
(* Bounds                                                                  *)
(***************************************************************************)
\* frames_to_process is 500 in the source; the model runs MaxFrames frames.
MaxFrames == 3
\* The infrared panel is 480 x 360 in the source; the model's panel is small.
InfraW == 4
InfraH == 3
\* Most regions a record is built for.
MaxRegions == 2

frames_to_process == MaxFrames

(***************************************************************************)
(* Values                                                                  *)
(***************************************************************************)
PyInt(n)    == [kind |-> "int",   num |-> n, list |-> <<>>]
PyFloat(h)  == [kind |-> "float", num |-> h, list |-> <<>>]
NaN         == [kind |-> "nan",   num |-> 0, list |-> <<>>]
PyList(s)   == [kind |-> "list",  num |-> 0, list |-> s]
\* the nested placeholder {'roi': {'intensity', 'spread_intensity'}}
Placeholder == [kind |-> "obj",   num |-> 0, list |-> <<>>]

isnan(v) == v.kind = "nan"

\* int(x) of a float given in half units: truncation toward zero
int(h) == IF h >= 0 THEN h \div 2 ELSE -((-h) \div 2)

Min(a, b) == IF a < b THEN a ELSE b
Max(a, b) == IF a > b THEN a ELSE b

(***************************************************************************)
(* Frames and slicing                                                      *)
(***************************************************************************)
\* Pixel (r, c) of the infrared panel of the k-th frame read.
Infra(k, r, c) == r * InfraW + c + k

\* Indices selected by slice(a, b) on an axis of length L (Python semantics:
\* a negative bound counts from the end, bounds are clamped to the axis).
SliceBound(x, L) == IF x < 0 THEN Max(x + L, 0) ELSE Min(x, L)
SliceIndices(a, b, L) == SliceBound(a, L)..(SliceBound(b, L) - 1)

\* box = <<left, top, width, height>> in half units
box_to_slice(box) ==
    [rows |-> <<int(box[2]), int(box[2] + box[4])>>,
     cols |-> <<int(box[1]), int(box[1] + box[3])>>]

\* infra[box_to_slice(roi)] for frame k: the selected pixel values.  Pixels of
\* one frame are pairwise distinct, so the selection is carried as a set.
Selection(k, roi) ==
    LET s == box_to_slice(roi)
    IN  {Infra(k, r, c) : r \in SliceIndices(s.rows[1], s.rows[2], InfraH),
                          c \in SliceIndices(s.cols[1], s.cols[2], InfraW)}

RECURSIVE SumOf(_)
SumOf(S) == IF S = {} THEN 0
            ELSE LET x == CHOOSE y \in S : TRUE IN x + SumOf(S \ {x})

RECURSIVE SumSq(_)
SumSq(S) == IF S = {} THEN 0
            ELSE LET x == CHOOSE y \in S : TRUE IN x * x + SumSq(S \ {x})

\* np.median: NaN on an empty selection, else the middle value (the mean of
\* the two middle values for an even count), in half units.
median(S) ==
    IF S = {} THEN NaN
    ELSE LET n  == Cardinality(S)
             below(x) == Cardinality({y \in S : y < x})
             lo == CHOOSE x \in S : below(x) = (n - 1) \div 2
             hi == CHOOSE x \in S : below(x) = n \div 2
         IN  PyFloat(lo + hi)

\* np.std: NaN on an empty selection, else sqrt(mean((x - mean)^2)), kept to
\* the half unit below: floor(2 * std) = floor(sqrt(4 (n Sum x^2 - (Sum x)^2)) / n).
std(S) ==
    IF S = {} THEN NaN
    ELSE LET n == Cardinality(S)
             a == 4 * (n * SumSq(S) - SumOf(S) * SumOf(S))
             r == CHOOSE q \in 0..(2 * n * (InfraW * InfraH)) :
                      q * q <= a /\ a < (q + 1) * (q + 1)
         IN  PyFloat(r \div n)

agg_func(S) == median(S)

ApplySpread(f, S) == IF f = "std" THEN std(S) ELSE NaN

(***************************************************************************)
(* tracker                                                                 *)
(***************************************************************************)
\* Seed lists a session is constructed with: the two regions of __main__
\* (scaled to the model's panel), one region, and no region at all.
Seed0 == <<0, 0, 4, 4>>     \* [0.0, 0.0, 2.0, 2.0]
Seed1 == <<4, 2, 4, 4>>     \* [2.0, 1.0, 2.0, 2.0]
SeedLists == {<<>>, <<Seed0>>, <<Seed0, Seed1>>}

\* Rectangles the underlying trackers may report for a region.
BoxInside  == <<2, 1, 4, 4>>                \* [1.0, 0.5, 2.0, 2.0], inside the panel
BoxRight   == <<2 * InfraW + 4, 0, 2, 4>>   \* entirely beyond the right edge
BoxLeft    == <<-4, 0, 2, 4>>               \* [-2.0, 0.0, 1.0, 2.0], entirely left of it
TrackerBoxes == {BoxInside, BoxRight, BoxLeft}

\* What one underlying tracker does with one frame: a new rectangle, or failure.
Outcomes == {[ok |-> TRUE, box |-> b] : b \in TrackerBoxes}
                \cup {[ok |-> FALSE, box |-> <<0, 0, 0, 0>>]}

\* tracker.__init__: one tracker is added per seed rectangle, in order.
tracker_init(rois) == rois

\* cv2.MultiTracker.update: every region is updated in place (a failed one
\* keeps its previous rectangle); the flag is the conjunction of the results;
\* all rectangles are returned.
RECURSIVE TrackFrom(_, _, _)
TrackFrom(objs, out, i) ==
    IF i > Len(objs) THEN <<>>
    ELSE <<IF out[i].ok THEN out[i].box ELSE objs[i]>>
             \o TrackFrom(objs, out, i + 1)
MultiTrackerRois(objs, out) == TrackFrom(objs, out, 1)
MultiTrackerSucc(objs, out) == \A i \in 1..Len(objs) : out[i].ok

WarningLine == [warn |-> TRUE, dict |-> <<>>]
DictLine(d) == [warn |-> FALSE, dict |-> d]

\* a tracker.update that stays silent when a region is lost
update_print_silent(s) == <<>>

\* tracker.update, what it prints: the warning when the flag is false
update_print(s) == IF ~s THEN <<WarningLine>> ELSE <<>>

\* tracker.update, what it returns for frame k: a 2-tuple without a spread
\* function, a 3-tuple with one
RECURSIVE AggFrom(_, _, _)
AggFrom(rois, k, i) ==
    IF i > Len(rois) THEN <<>>
    ELSE <<agg_func(Selection(k, rois[i]))>> \o AggFrom(rois, k, i + 1)

RECURSIVE SpreadFrom(_, _, _, _)
SpreadFrom(rois, k, sf, i) ==
    IF i > Len(rois) THEN <<>>
    ELSE <<ApplySpread(sf, Selection(k, rois[i]))>>
             \o SpreadFrom(rois, k, sf, i + 1)

\* a tracker.update that leaves out the regions whose selection is empty
RECURSIVE AggNonEmptyFrom(_, _, _)
AggNonEmptyFrom(rois, k, i) ==
    IF i > Len(rois) THEN <<>>
    ELSE (IF Selection(k, rois[i]) = {} THEN <<>>
          ELSE <<agg_func(Selection(k, rois[i]))>>)
             \o AggNonEmptyFrom(rois, k, i + 1)
update_skipping_empty(rois, k, sf) ==
    [len |-> IF sf = "None" THEN 2 ELSE 3, rois |-> rois,
     agg |-> AggNonEmptyFrom(rois, k, 1),
     spread |-> IF sf = "None" THEN <<>> ELSE SpreadFrom(rois, k, sf, 1)]

update(rois, k, sf) ==
    IF sf = "None"
    THEN [len |-> 2, rois |-> rois, agg |-> AggFrom(rois, k, 1),
          spread |-> <<>>]
    ELSE [len |-> 3, rois |-> rois, agg |-> AggFrom(rois, k, 1),
          spread |-> SpreadFrom(rois, k, sf, 1)]

NoReturn == [len |-> 0, rois |-> <<>>, agg |-> <<>>, spread |-> <<>>]

(***************************************************************************)
(* convert_to_dict                                                         *)
(***************************************************************************)
\* f'roi{i}', f'intensity{i}', f'spread_intensity{i}'
Key(prefix, i) == prefix \o ToString(i)

\* d[k] = v on an insertion-ordered dict
DictSet(d, k, v) ==
    IF \E j \in 1..Len(d) : d[j].k = k
    THEN [d EXCEPT ![CHOOSE j \in 1..Len(d) : d[j].k = k] = [k |-> k, v |-> v]]
    ELSE Append(d, [k |-> k, v |-> v])

DictKeys(d) == {d[j].k : j \in 1..Len(d)}
DictGet(d, k) == d[CHOOSE j \in 1..Len(d) : d[j].k = k].v

\* the body of the innermost loop; i is the innermost loop's index
LoopBody(d, roi_value, intensity_value, i, spread_value) ==
    LET bad == isnan(intensity_value) \/ isnan(spread_value)
        d1  == DictSet(d, Key("roi", i), PyList(roi_value))
        d2  == DictSet(d1, Key("intensity", i),
                       IF bad THEN PyInt(-1) ELSE intensity_value)
    IN  DictSet(d2, Key("spread_intensity", i),
                IF bad THEN PyInt(-1) ELSE spread_value)

\* the three nested loops, all binding i; t counts the iterations done
RECURSIVE Loops(_, _, _, _, _)
Loops(d, rois, aggs, spreads, t) ==
    LET A == Len(aggs)
        S == Len(spreads)
    IN  IF t >= Len(rois) * A * S THEN d
        ELSE Loops(LoopBody(d, rois[(t \div (S * A)) + 1],
                            aggs[((t \div S) % A) + 1],
                            t % S,
                            spreads[(t % S) + 1]),
                   rois, aggs, spreads, t + 1)

convert_to_dict(rois, agg_intensities, spread_intensities) ==
    Loops(<<[k |-> "frame_number", v |-> Placeholder]>>,
          rois, agg_intensities, spread_intensities, 0)

(***************************************************************************)
(* json.dumps and convert_to_JSON_file                                     *)
(***************************************************************************)
\* repr of a float given in half units: "1.5", "-0.5", "2.0"
FloatRepr(h) ==
    LET a == IF h < 0 THEN -h ELSE h
    IN  (IF h < 0 THEN "-" ELSE "") \o ToString(a \div 2)
            \o (IF a % 2 = 0 THEN ".0" ELSE ".5")

Quote(s) == "\"" \o s \o "\""

RECURSIVE DumpsList(_, _)
DumpsList(s, i) ==
    IF i > Len(s) THEN <<>>
    ELSE (IF i > 1 THEN <<", ">> ELSE <<>>) \o <<FloatRepr(s[i])>>
             \o DumpsList(s, i + 1)

\* frame_number is always overwritten by an int before a record is dumped
\* (line 169), so the placeholder never reaches json.dumps.
DumpsValue(v) ==
    CASE v.kind = "int"   -> <<ToString(v.num)>>
      [] v.kind = "float" -> <<FloatRepr(v.num)>>
      [] v.kind = "nan"   -> <<"NaN">>
      [] v.kind = "list"  -> <<"[">> \o DumpsList(v.list, 1) \o <<"]">>

RECURSIVE DumpsMembers(_, _)
DumpsMembers(d, j) ==
    IF j > Len(d) THEN <<>>
    ELSE (IF j > 1 THEN <<", ">> ELSE <<>>)
             \o <<Quote(d[j].k), ": ">> \o DumpsValue(d[j].v)
             \o DumpsMembers(d, j + 1)

dumps(d) == <<"{">> \o DumpsMembers(d, 1) \o <<"}">>

\* f.write("%s,\n" % json.dumps(d)) on a file opened in text mode for append
convert_to_JSON_file(f, d, nl) == f \o dumps(d) \o <<",">> \o nl

(***************************************************************************)
(* __main__                                                                *)
(***************************************************************************)
Init ==
    /\ pc = "uninit"
    /\ error = "none"
    /\ linesep \in {<<"\n">>, <<"\r", "\n">>}
    /\ rois0 \in SeedLists
    /\ spread_func \in {"None", "std"}
    /\ objects = <<>>
    /\ ii = 0
    /\ frame_counter = 0
    /\ succ = TRUE
    /\ ret = NoReturn
    /\ JSONDictionary = <<>>
    /\ file = <<>>
    /\ stdout = <<>>

\* lines 134-149: Output.json is emptied, the first frame is read and split,
\* the tracker is constructed
Construct ==
    /\ pc = "uninit"
    /\ file' = <<>>
    /\ objects' = tracker_init(rois0)
    /\ pc' = "init"
    /\ UNCHANGED <<error, linesep, rois0, spread_func, ii, frame_counter, succ,
                   ret, JSONDictionary, stdout>>

\* lines 134-145 when cap.read() yields no frame: stryker(None) raises
ConstructNoFrame ==
    /\ pc = "uninit"
    /\ file' = <<>>
    /\ pc' = "aborted"
    /\ error' = "TypeError"
    /\ UNCHANGED <<linesep, rois0, spread_func, objects, ii, frame_counter,
                   succ, ret, JSONDictionary, stdout>>

\* lines 156-160
OpenSequence ==
    /\ pc = "init"
    /\ frame_counter' = 0
    /\ JSONDictionary' = <<>>
    /\ file' = file \o <<"[">>
    /\ pc' = "loop"
    /\ UNCHANGED <<error, linesep, rois0, spread_func, objects, ii, succ, ret,
                   stdout>>

\* lines 162-175, one iteration with a frame read
ProcessFrame ==
    /\ pc = "loop"
    /\ ii < frames_to_process
    /\ \E out \in [1..Len(objects) -> Outcomes] :
        LET rois == MultiTrackerRois(objects, out)
            s    == MultiTrackerSucc(objects, out)
            \* line 164: vanilla.update(vis, infra)
            r    == update(rois, ii + 1, spread_func)
            \* lines 167-169
            d    == DictSet(convert_to_dict(r.rois, r.agg, r.spread),
                            "frame_number", PyInt(frame_counter + 1))
        IN  /\ objects' = rois
            /\ succ' = s
            /\ ret' = r
            /\ IF r.len = 3
               THEN /\ frame_counter' = frame_counter + 1
                    /\ JSONDictionary' = d
                    /\ stdout' = stdout \o update_print(s) \o <<DictLine(d)>>
                    /\ file' = convert_to_JSON_file(file, d, linesep)
                    /\ ii' = ii + 1
                    /\ UNCHANGED <<pc, error>>
               ELSE \* line 164: not enough values to unpack (expected 3, got 2)
                    /\ stdout' = stdout \o update_print(s)
                    /\ pc' = "aborted"
                    /\ error' = "ValueError"
                    /\ UNCHANGED <<frame_counter, JSONDictionary, file, ii>>
    /\ UNCHANGED <<linesep, rois0, spread_func>>

\* lines 162-163 when the frame source has run out: stryker(None) raises
FrameSourceEnds ==
    /\ pc = "loop"
    /\ ii < frames_to_process
    /\ pc' = "aborted"
    /\ error' = "TypeError"
    /\ UNCHANGED <<linesep, rois0, spread_func, objects, ii, frame_counter,
                   succ, ret, JSONDictionary, file, stdout>>

\* lines 176-180: cut the last 3 bytes, append ']'
Finalize ==
    /\ pc = "loop"
    /\ ii = frames_to_process
    /\ IF Len(file) >= 3
       THEN /\ file' = SubSeq(file, 1, Len(file) - 3) \o <<"]">>
            /\ pc' = "closed"
            /\ UNCHANGED error
       ELSE /\ pc' = "aborted"
            /\ error' = "OSError"
            /\ UNCHANGED file
    /\ UNCHANGED <<linesep, rois0, spread_func, objects, ii, frame_counter,
                   succ, ret, JSONDictionary, stdout>>

Next ==
    \/ Construct
    \/ ConstructNoFrame
    \/ OpenSequence
    \/ ProcessFrame
    \/ FrameSourceEnds
    \/ Finalize

Spec == Init /\ [][Next]_vars

(***************************************************************************)
(* A bare call of convert_to_dict: the three lists have the same length    *)
(* and are drawn from small sets; the call leaves its result in            *)
(* JSONDictionary.                                                         *)
(***************************************************************************)
DictBoxes   == {Seed0, Seed1, BoxRight}
DictAggs    == {NaN, PyFloat(3), PyFloat(10)}
DictSpreads == {NaN, PyFloat(0), PyFloat(5)}

InitDict ==
    /\ pc = "call"
    /\ error = "none"
    /\ linesep = <<"\n">>
    /\ rois0 = <<>>
    /\ spread_func = "std"
    /\ objects = <<>>
    /\ ii = 0
    /\ frame_counter = 0
    /\ succ = TRUE
    /\ \E n \in 0..MaxRegions :
         \E r \in [1..n -> DictBoxes], a \in [1..n -> DictAggs],
            sp \in [1..n -> DictSpreads] :
             ret = [len |-> 3, rois |-> r, agg |-> a, spread |-> sp]
    /\ JSONDictionary = <<>>
    /\ file = <<>>
    /\ stdout = <<>>

CallConvertToDict ==
    /\ pc = "call"
    /\ JSONDictionary' = convert_to_dict(ret.rois, ret.agg, ret.spread)
    /\ pc' = "returned"
    /\ UNCHANGED <<error, linesep, rois0, spread_func, objects, ii,
                   frame_counter, succ, ret, file, stdout>>

NextDict == CallConvertToDict

SpecDict == InitDict /\ [][NextDict]_vars

(***************************************************************************)
(* Reading Output.json back: a JSON reader over the file's tokens          *)
(***************************************************************************)
Whitespace == {"\n", "\r"}
Commas     == {",", ", "}
RegionKeys == {Key(p, i) : p \in {"roi", "intensity", "spread_intensity"},
                           i \in 0..(MaxRegions - 1)}
StringToks == {Quote(k) : k \in RegionKeys \cup {"frame_number"}}
NotNumbers == StringToks \cup Whitespace \cup Commas
                  \cup {"[", "]", "{", "}", ": ", "NaN", ""}

IsString(t) == t \in StringToks
IsNumber(t) == t \notin NotNumbers

At(f, i) == IF 1 <= i /\ i <= Len(f) THEN f[i] ELSE ""

RECURSIVE SkipWs(_, _)
SkipWs(f, i) == IF At(f, i) \in Whitespace THEN SkipWs(f, i + 1) ELSE i

\* Each returns the index after the construct that starts at i, or 0 when
\* the tokens from i on are not that construct.
RECURSIVE PValue(_, _)
RECURSIVE PElems(_, _)
RECURSIVE PMembers(_, _)
PValue(f, i) ==
    LET t == At(f, i)
        j == SkipWs(f, i + 1)
    IN  IF IsNumber(t) \/ IsString(t) THEN i + 1
        ELSE IF t = "[" THEN (IF At(f, j) = "]" THEN j + 1 ELSE PElems(f, j))
        ELSE IF t = "{" THEN (IF At(f, j) = "}" THEN j + 1 ELSE PMembers(f, j))
        ELSE 0
PElems(f, i) ==
    LET j == PValue(f, i)
        k == SkipWs(f, j)
    IN  IF j = 0 THEN 0
        ELSE IF At(f, k) = "]" THEN k + 1
        ELSE IF At(f, k) \in Commas THEN PElems(f, SkipWs(f, k + 1))
        ELSE 0
PMembers(f, i) ==
    LET j == PValue(f, i + 2)
        k == SkipWs(f, j)
    IN  IF ~IsString(At(f, i)) \/ At(f, i + 1) # ": " THEN 0
        ELSE IF j = 0 THEN 0
        ELSE IF At(f, k) = "}" THEN k + 1
        ELSE IF At(f, k) \in Commas THEN PMembers(f, SkipWs(f, k + 1))
        ELSE 0

ValidJSON(f) ==
    LET j == PValue(f, SkipWs(f, 1))
    IN  j # 0 /\ SkipWs(f, j) = Len(f) + 1

\* Start indices of the elements of a valid top-level array.
RECURSIVE ElemStarts(_, _)
ElemStarts(f, i) ==
    LET k == SkipWs(f, PValue(f, i))
    IN  <<i>> \o (IF At(f, k) \in Commas
                  THEN ElemStarts(f, SkipWs(f, k + 1)) ELSE <<>>)
Elements(f) ==
    LET i == SkipWs(f, SkipWs(f, 1) + 1)
    IN  IF At(f, i) = "]" THEN <<>> ELSE ElemStarts(f, i)

\* Index of the value of member `key` of the valid object whose members
\* start at i, or 0.
RECURSIVE MemberValue(_, _, _)
MemberValue(f, i, key) ==
    LET k == SkipWs(f, PValue(f, i + 2))
    IN  IF At(f, i) = key THEN i + 2
        ELSE IF At(f, k) \in Commas THEN MemberValue(f, SkipWs(f, k + 1), key)
        ELSE 0

\* Whether token i of f is a byte of a record (objects do not nest).
RECURSIVE InsideBraces(_, _)
InsideBraces(f, i) ==
    IF i = 0 THEN FALSE
    ELSE IF f[i] = "{" THEN TRUE
    ELSE IF f[i] = "}" THEN FALSE
    ELSE InsideBraces(f, i - 1)
RecordByte(f, i) == f[i] = "}" \/ InsideBraces(f, i)

\* The tokens the close step cuts are one byte each.
TailIsSingleBytes ==
    (pc = "loop" /\ ii = frames_to_process) =>
        /\ Len(file) >= 4
        /\ \A i \in (Len(file) - 2)..Len(file) : file[i] \in {"}", ",", "\n", "\r"}

(***************************************************************************)
(* Properties                                                              *)
(***************************************************************************)
FrameNumberKey == Quote("frame_number")

\* The file reads back as a JSON sequence of exactly K objects (so with no
\* trailing comma), the k-th with frame_number = k.
IsJsonOfFrames(f, K) ==
    /\ ValidJSON(f)
    /\ Len(Elements(f)) = K
    /\ \A k \in 1..K :
          LET e == Elements(f)[k]
              m == MemberValue(f, SkipWs(f, e + 1), FrameNumberKey)
          IN  At(f, e) = "{" /\ m # 0 /\ At(f, m) = ToString(k)

\* A session set up as __main__ sets it up: two seed regions, np.std.
AsInMain == Len(rois0) = 2 /\ spread_func = "std"

\* C1: after a full session of K frames driven as in the main loop, the
\* closed file is valid JSON: a top-level sequence of exactly K objects, no
\* trailing comma, and the object at position k has frame_number = k.
C1_ClosedFileIsJsonOfKFrames ==
    (AsInMain /\ pc = "closed") => IsJsonOfFrames(file, frames_to_process)

\* With a two-byte newline the 3-byte cut removes exactly the separator and
\* the closed file does read back.
TwoByteNewlineClosesValid ==
    (pc = "closed" /\ linesep = <<"\r", "\n">>) =>
        IsJsonOfFrames(file, frames_to_process)

\* C2: a record built from same-length lists is index-aligned: roi{i} is the
\* i-th rectangle, intensity{i} comes from the i-th aggregate (the value or
\* the sentinel), spread_intensity{i} from the i-th spread.
C2_RecordIsIndexAligned ==
    pc = "returned" =>
        \A i \in 1..Len(ret.rois) :
            /\ {Key("roi", i - 1), Key("intensity", i - 1),
                Key("spread_intensity", i - 1)} \subseteq DictKeys(JSONDictionary)
            /\ DictGet(JSONDictionary, Key("roi", i - 1)) = PyList(ret.rois[i])
            /\ DictGet(JSONDictionary, Key("intensity", i - 1))
                   \in {ret.agg[i], PyInt(-1)}
            /\ DictGet(JSONDictionary, Key("spread_intensity", i - 1))
                   \in {ret.spread[i], PyInt(-1)}

\* C3: in a record, a NaN i-th aggregate gives intensity{i} = -1, a NaN i-th
\* spread gives spread_intensity{i} = -1, and no field is NaN.
C3_NaNBecomesMinusOne ==
    pc = "returned" =>
        /\ \A i \in 1..Len(ret.rois) :
              /\ isnan(ret.agg[i]) =>
                     /\ Key("intensity", i - 1) \in DictKeys(JSONDictionary)
                     /\ DictGet(JSONDictionary, Key("intensity", i - 1)) = PyInt(-1)
              /\ isnan(ret.spread[i]) =>
                     /\ Key("spread_intensity", i - 1) \in DictKeys(JSONDictionary)
                     /\ DictGet(JSONDictionary, Key("spread_intensity", i - 1))
                            = PyInt(-1)
        /\ \A j \in 1..Len(JSONDictionary) : ~isnan(JSONDictionary[j].v)

\* C4: the file is append-only for records: every byte of an appended
\* record stays, unchanged and at its offset, in every later state of the
\* file, the close step included.
C4_RecordBytesAreKept ==
    [][AsInMain =>
         \A i \in 1..Len(file) :
             RecordByte(file, i) => (i <= Len(file') /\ file'[i] = file[i])]_vars

\* C5: on every exit path of a session that wrote the opening '[', the
\* finalize step has run: the file is not left unterminated.
C5_EveryExitClosesTheSequence ==
    (AsInMain /\ pc \in {"closed", "aborted"}
              /\ Len(file) >= 1 /\ file[1] = "[") =>
        file[Len(file)] = "]"

ExpectedKeys(n) ==
    {"frame_number"} \cup
        {Key(p, i) : p \in {"roi", "intensity", "spread_intensity"},
                     i \in 0..(n - 1)}

\* what the frames printed so far have written after the '['
RECURSIVE Written(_, _, _)
Written(out, p, nl) ==
    IF p > Len(out) THEN <<>>
    ELSE (IF out[p].warn THEN <<>> ELSE dumps(out[p].dict) \o <<",">> \o nl)
             \o Written(out, p + 1, nl)

DictLines(out) == {p \in 1..Len(out) : ~out[p].warn}

\* C6: with a spread function configured, a frame on which a region is lost
\* emits the warning and does not halt the session: every warning is followed
\* by that frame's record, every frame so far (the failing ones included) has
\* appended a complete record with the keys roi{i}, intensity{i},
\* spread_intensity{i} of every tracked region and frame_number.
C6_LostRegionWarnsAndRecords ==
    (spread_func # "None" /\ pc \in {"loop", "closed", "aborted"}) =>
        /\ \A p \in 1..Len(stdout) :
              stdout[p].warn => (p < Len(stdout) /\ ~stdout[p + 1].warn)
        /\ (frame_counter >= 1 /\ ~succ) =>
              (Len(stdout) >= 2 /\ stdout[Len(stdout) - 1] = WarningLine)
        /\ \A p \in DictLines(stdout) :
              DictKeys(stdout[p].dict) = ExpectedKeys(Len(rois0))
        /\ Cardinality(DictLines(stdout)) = frame_counter
        /\ frame_counter = ii
        /\ pc = "loop" => file = <<"[">> \o Written(stdout, 1, linesep)
        /\ pc = "aborted" => error = "TypeError"

\* frame 1 tracked every region, frame 2 lost one, and the session ran on
\* to its last frame
C6_Witness ==
    /\ spread_func = "std"
    /\ pc = "loop"
    /\ ii = frames_to_process
    /\ Len(rois0) = 2
    /\ ~stdout[1].warn
    /\ stdout[2].warn
    /\ ~stdout[3].warn

EntirelyOutside(box) ==
    \/ box[1] >= 2 * InfraW
    \/ box[2] >= 2 * InfraH
    \/ box[1] + box[3] <= 0
    \/ box[2] + box[4] <= 0

\* C7: with a spread function configured, a region whose updated rectangle
\* lies entirely outside the infrared panel (on any side) is recorded with
\* intensity{i} = -1 and spread_intensity{i} = -1.
C7_OutsideRegionReadsMinusOne ==
    (pc = "loop" /\ frame_counter >= 1 /\ ret.len = 3) =>
        \A i \in 1..Len(ret.rois) :
            EntirelyOutside(ret.rois[i]) =>
                /\ DictGet(JSONDictionary, Key("intensity", i - 1)) = PyInt(-1)
                /\ DictGet(JSONDictionary, Key("spread_intensity", i - 1))
                       = PyInt(-1)

\* the index of the frame the last update call was given
LastFrame == IF pc = "aborted" /\ error = "ValueError" THEN ii + 1 ELSE ii

\* C8: whatever the tracker's flag, update returns as many rectangles as
\* there were seed rectangles, in the tracker's order, one aggregate per
\* rectangle in that order, and with a spread function one spread per
\* rectangle in that order.
C8_UpdateKeepsLengthAndOrder ==
    ret.len # 0 =>
        /\ Len(ret.rois) = Len(rois0)
        /\ ret.rois = objects
        /\ Len(ret.agg) = Len(ret.rois)
        /\ \A i \in 1..Len(ret.rois) :
              i <= Len(ret.agg) /\
              ret.agg[i] = agg_func(Selection(LastFrame, ret.rois[i]))
        /\ spread_func # "None" =>
              /\ ret.len = 3
              /\ Len(ret.spread) = Len(ret.rois)
              /\ \A i \in 1..Len(ret.rois) :
                    ret.spread[i] =
                        ApplySpread(spread_func, Selection(LastFrame, ret.rois[i]))

\* an update that lost a region and met an empty selection, with two regions
C8_Witness ==
    /\ ret.len = 3
    /\ Len(ret.rois) = 2
    /\ ~succ
    /\ \E i \in 1..2 : isnan(ret.agg[i])
    /\ \E i \in 1..2 : ~isnan(ret.agg[i])

\* C9: a session constructed without a spread function records each frame:
\* the record has roi{i} and intensity{i} for every region, no
\* spread_intensity key, and no step of the cycle fails.
C9_NoSpreadSessionRecords ==
    (spread_func = "None" /\ ret.len # 0) =>
        /\ pc # "aborted"
        /\ DictKeys(JSONDictionary) =
               {"frame_number"} \cup
                   {Key(p, i) : p \in {"roi", "intensity"},
                                i \in 0..(Len(rois0) - 1)}

\* C10: constructing a session with an empty seed list aborts: no
\* initialized session exists afterwards and no update or record follows.
C10_EmptySeedListAborts ==
    rois0 = <<>> => (pc \in {"uninit", "aborted"} /\ ret.len = 0)

====
